---- MODULE Spec2Model ----
(***************************************************************************)
(* A model of src/snake.py: the Snake object (body, direction, deferred    *)
(* grow/shrink flags), the Game session and main()'s event loop.           *)
(*                                                                         *)
(*   Spec         main(): ticks and key presses on a Game                  *)
(*   SpecSnake    a Snake driven through add_block, remove_block,          *)
(*                set_direction and move_snake                             *)
(*   SpecHit      Snake.check_collision on any short chain of segments     *)
(*   SpecCollide  Game.check_collision on a Game its caller has set up     *)
(*   SpecSpeed    Game.increase_speed, called again and again              *)
(*   SpecLate     main() taken up late in a game, at any speed             *)
(*   SpecPlace    Game.check_collision statement by statement, its three   *)
(*                placement loops one pass a step                          *)
(*   SpecRoam     Food.randomize, Coconut.randomize and the enemies'       *)
(*                updates                                                  *)
(*   SpecScores   a HighScoreManager and its file                          *)
(*                                                                         *)
(* Positions and directions are pairs <<x, y>> (pygame.Vector2 holding     *)
(* whole numbers, on which int() is the identity).  Sequences are 1-based: *)
(* body[1] is the head.                                                    *)
(***************************************************************************)
EXTENDS Integers, Sequences, FiniteSets, TLC

(***************************************************************************)
(* Bounds of the model.                                                    *)
(***************************************************************************)
\* the grid of the configuration explored, in cells
GridCols == 7
GridRows == 11
\* SpecSnake: the longest body explored, and how far its head goes
MaxLen == 4
MaxReach == 2
\* SpecHit: the longest body explored
MaxShape == 3
\* Spec: the number of Game.update() calls explored in one run of main()
MaxTicks == 3
\* SpecLate: the number of Game.update() calls explored from a game in progress
LateTicks == 2
\* SpecScores: the longest unsorted list explored, and the highest score in a
\* stored list
MaxList == 3
MaxScore == 2
\* SpecRoam: the rounds of Enemy.update explored (the enemies move in the
\* move_interval-th)
MaxRoam == 61
\* SpecPlace: the Coconut.randomize calls explored in one run of the loop of
\* ensure_coconut_not_on_snake, which counts none
MaxSpins == 101

(***************************************************************************)
(* GameConfig.  The window explored is GridCols x GridRows cells (the      *)
(* defaults, 800 x 600, give 40 x 30); the other fields have their         *)
(* defaults.                                                               *)
(***************************************************************************)
cell_size == 20
window_width == GridCols * cell_size
window_height == GridRows * cell_size
snake_speed == 150
min_snake_speed == 80
max_snake_speed == 300
speed_increase == 20
\* self.score += 1, self.score += 2 in Game.check_collision
apple_points == 1
coconut_points == 2
\* coconut_spawn_chance = 0.15, in hundredths
coconut_spawn_chance == 15
\* Enemy.move_interval
move_interval == 60
\* attempts < 100 in ensure_food_not_on_snake and ensure_food_not_on_coconut
max_attempts == 100
\* range(3) in Game.__init__ and Game.restart_game
NumEnemies == 3
\* scores[:10] in HighScoreManager.add_score
TopN == 10

cell_number_x == window_width \div cell_size
cell_number_y == window_height \div cell_size

(***************************************************************************)
(* Direction.                                                              *)
(***************************************************************************)
UP == <<0, -1>>
DOWN == <<0, 1>>
LEFT == <<-1, 0>>
RIGHT == <<1, 0>>
Direction == {UP, DOWN, LEFT, RIGHT}

\* Vector2.__add__
VAdd(p, d) == <<p[1] + d[1], p[2] + d[2]>>

VARIABLES
    body,                 \* Snake.body, head first
    direction,            \* Snake.direction
    new_block,            \* Snake.new_block
    should_remove_block,  \* Snake.should_remove_block
    food,                 \* Game.food.pos
    coconut,              \* Game.coconut: NoCoconut or its pos
    enemies,              \* Game.enemies: records [pos, direction, move_timer]
    score,                \* Game.score
    state,                \* Game.state
    scores,               \* Game.high_score_manager.scores
    current_speed,        \* Game.current_speed
    timer,                \* the interval pygame.time.set_timer was last armed with
    ticks,                \* the number of Game.update() calls that ran so far
    since,                \* history: what was requested since the previous move_snake
    pair,                 \* history: the length the body had when a grow and a shrink
                          \* were both requested before one move_snake, and the
                          \* moves made since with nothing more requested
    file,                 \* the high score file, as json.load would read it
    loop,                 \* Game.check_collision run statement by statement: where
                          \* it stands, and the attempts of its placement loop
    last,                 \* history: the random.random() of the last food pick-up
    op                    \* history: the method a test driver called last, and
                          \* its argument (main() calls through events: Spec
                          \* leaves it alone)

snakevars == <<body, direction, new_block, should_remove_block, since, pair>>
gamevars == <<food, coconut, enemies, score, state, scores, current_speed, timer,
              ticks, last, file, loop>>
vars == <<snakevars, gamevars, op>>

NoRequest == [grow |-> FALSE, shrink |-> FALSE]
NoPair == [before |-> 0, moves |-> 0]
NoArg == << >>
NoOp == [name |-> "none", arg |-> NoArg]
\* no high score file on the disk
NoFile == [kind |-> "missing", items |-> << >>]
\* Game.check_collision is not running
NoLoop == [pc |-> "idle", attempts |-> 0, draws |-> 0, all_on |-> TRUE,
           spawned |-> FALSE, exhausted |-> FALSE]

(***************************************************************************)
(* Snake.                                                                  *)
(***************************************************************************)
\* Snake.__init__
FreshBody == << <<5, 10>>, <<4, 10>>, <<3, 10>> >>

\* python's s[:-k]
DropLast(s, k) == IF Len(s) <= k THEN << >> ELSE SubSeq(s, 1, Len(s) - k)

\* a mutant of move_snake: the shrinking move drops the tail only
move_snake_drops_one(b, d, nb, srb) ==
    IF nb
    THEN [body |-> <<VAdd(b[1], d)>> \o b,
          new_block |-> FALSE,
          should_remove_block |-> srb]
    ELSE IF Len(b) > 1
    THEN [body |-> <<VAdd(b[1], d)>> \o DropLast(b, 1),
          new_block |-> nb,
          should_remove_block |-> FALSE]
    ELSE [body |-> <<VAdd(b[1], d)>>,
          new_block |-> nb,
          should_remove_block |-> srb]

\* a mutant of move_snake: the growing move puts the new head at the end of
\* the list
move_snake_appends(b, d, nb, srb) ==
    IF nb
    THEN [body |-> b \o <<VAdd(b[1], d)>>,
          new_block |-> FALSE,
          should_remove_block |-> srb]
    ELSE IF srb /\ Len(b) > 1
    THEN [body |-> <<VAdd(b[1], d)>> \o (IF Len(b) > 2 THEN DropLast(b, 2) ELSE << >>),
          new_block |-> nb,
          should_remove_block |-> FALSE]
    ELSE IF Len(b) > 1
    THEN [body |-> <<VAdd(DropLast(b, 1)[1], d)>> \o DropLast(b, 1),
          new_block |-> nb,
          should_remove_block |-> srb]
    ELSE [body |-> <<VAdd(b[1], d)>>,
          new_block |-> nb,
          should_remove_block |-> srb]

\* a mutant of move_snake: the growing move drops the shrink asked for
move_snake_grow_clears_both(b, d, nb, srb) ==
    IF nb
    THEN [body |-> <<VAdd(b[1], d)>> \o b,
          new_block |-> FALSE,
          should_remove_block |-> FALSE]
    ELSE IF srb /\ Len(b) > 1
    THEN [body |-> <<VAdd(b[1], d)>> \o (IF Len(b) > 2 THEN DropLast(b, 2) ELSE << >>),
          new_block |-> nb,
          should_remove_block |-> FALSE]
    ELSE IF Len(b) > 1
    THEN [body |-> <<VAdd(DropLast(b, 1)[1], d)>> \o DropLast(b, 1),
          new_block |-> nb,
          should_remove_block |-> srb]
    ELSE [body |-> <<VAdd(b[1], d)>>,
          new_block |-> nb,
          should_remove_block |-> srb]

\* Snake.move_snake, as the new values of (body, new_block, should_remove_block)
move_snake(b, d, nb, srb) ==
    IF nb
    THEN [body |-> <<VAdd(b[1], d)>> \o b,
          new_block |-> FALSE,
          should_remove_block |-> srb]
    ELSE IF srb /\ Len(b) > 1
    THEN [body |-> <<VAdd(b[1], d)>> \o (IF Len(b) > 2 THEN DropLast(b, 2) ELSE << >>),
          new_block |-> nb,
          should_remove_block |-> FALSE]
    ELSE IF Len(b) > 1
    THEN [body |-> <<VAdd(DropLast(b, 1)[1], d)>> \o DropLast(b, 1),
          new_block |-> nb,
          should_remove_block |-> srb]
    ELSE [body |-> <<VAdd(b[1], d)>>,
          new_block |-> nb,
          should_remove_block |-> srb]

\* a mutant of remove_block: the length is not looked at
remove_block_unguarded(b, srb) == TRUE

\* Snake.remove_block, as the new value of should_remove_block
remove_block(b, srb) == IF Len(b) > 1 THEN TRUE ELSE srb

\* a mutant of opposite_directions: LEFT is entered as its own opposite
opposite_directions_typo(d) ==
    CASE d = UP -> DOWN
      [] d = DOWN -> UP
      [] d = LEFT -> LEFT
      [] d = RIGHT -> LEFT

\* Snake.set_direction: the table of opposites
opposite_directions(d) ==
    CASE d = UP -> DOWN
      [] d = DOWN -> UP
      [] d = LEFT -> RIGHT
      [] d = RIGHT -> LEFT

\* Snake.set_direction, as the new value of direction
set_direction(cur, new_direction) ==
    IF cur \in Direction /\ opposite_directions(cur) # new_direction
    THEN new_direction
    ELSE cur

\* Snake.check_collision: the loop over body[1:]
RECURSIVE HitsFrom(_, _, _)
HitsFrom(b, head, i) ==
    IF i > Len(b) THEN FALSE
    ELSE IF b[i] = head THEN TRUE
    ELSE HitsFrom(b, head, i + 1)

\* a mutant of Snake_check_collision: the far edges are compared with <=
Snake_check_collision_inclusive(b) ==
    IF ~(0 <= b[1][1] /\ b[1][1] <= cell_number_x
         /\ 0 <= b[1][2] /\ b[1][2] <= cell_number_y)
    THEN TRUE
    ELSE HitsFrom(b, b[1], 2)

\* Snake.check_collision
Snake_check_collision(b) ==
    IF ~(0 <= b[1][1] /\ b[1][1] < cell_number_x
         /\ 0 <= b[1][2] /\ b[1][2] < cell_number_y)
    THEN TRUE
    ELSE HitsFrom(b, b[1], 2)

(***************************************************************************)
(* Food, Coconut, Enemy: the random source.                                *)
(***************************************************************************)
\* random.randint(0, cell_number_x - 1), random.randint(0, cell_number_y - 1)
GridCells == (0 .. cell_number_x - 1) \X (0 .. cell_number_y - 1)

\* a mutant of InGrid: the far edges are compared with <=
InGrid_inclusive(p) ==
    /\ 0 <= p[1] /\ p[1] <= cell_number_x
    /\ 0 <= p[2] /\ p[2] <= cell_number_y

InGrid(p) ==
    /\ 0 <= p[1] /\ p[1] < cell_number_x
    /\ 0 <= p[2] /\ p[2] < cell_number_y

\* random.randint(a, b), explored at the two ends of its range
randint(a, b) == {a, b}

\* Food.randomize, Coconut.randomize, Enemy.randomize_position, with such draws
randomize_position ==
    randint(0, cell_number_x - 1) \X randint(0, cell_number_y - 1)

\* The positions the random source is explored to return to Food.randomize and
\* Coconut.randomize: the four cells of the grid's bottom right corner, which
\* the fresh snake reaches within two moves.
DrawCells ==
    {p \in GridCells : p[1] >= cell_number_x - 2 /\ p[2] >= cell_number_y - 2}

\* The positions and directions the random source is explored to return to
\* Enemy.randomize_position and Enemy.randomize_direction in Enemy.__init__.
\* (An enemy moves on its move_interval-th update only: in the MaxTicks ticks
\* of Spec its direction is never used.)
EnemyDrawCells == {<<0, 0>>, <<cell_number_x - 1, cell_number_y - 2>>}
EnemyDrawDirs == {UP}

\* The values of random.random() explored, in hundredths.
RandomDraws == {14, 15}

NoCoconut == << >>
NoDraw == "none"

\* any(block == p for block in body)
OnSnake(p, b) == \E i \in 1 .. Len(b) : b[i] = p

\* Food.randomize, Coconut.randomize
randomize == DrawCells

\* Enemy.__init__
NewEnemy ==
    {[pos |-> p, direction |-> d, move_timer |-> 0] :
        p \in EnemyDrawCells, d \in EnemyDrawDirs}

\* [Enemy(config) for _ in range(3)]
NewEnemies == [1 .. NumEnemies -> NewEnemy]

\* a mutant of enemy_update: the random.random() < 0.3 is drawn on every
\* update, outside the test of the timer
enemy_update_turns_anytime(e) ==
    IF e.move_timer + 1 >= move_interval
    THEN LET new_pos == VAdd(e.pos, e.direction) IN
         IF InGrid(new_pos)
         THEN {[pos |-> new_pos, direction |-> d, move_timer |-> 0] :
                  d \in {e.direction} \cup Direction}
         ELSE {[pos |-> e.pos, direction |-> d, move_timer |-> 0] :
                  d \in Direction}
    ELSE {[pos |-> e.pos, direction |-> d, move_timer |-> e.move_timer + 1] :
             d \in {e.direction} \cup Direction}

\* Enemy.update, as the set of enemies it can leave (the random direction and
\* the random.random() < 0.3 are drawn only when the timer reaches
\* move_interval)
enemy_update(e) ==
    IF e.move_timer + 1 >= move_interval
    THEN LET new_pos == VAdd(e.pos, e.direction) IN
         IF InGrid(new_pos)
         THEN {[pos |-> new_pos, direction |-> d, move_timer |-> 0] :
                  d \in {e.direction} \cup Direction}
         ELSE {[pos |-> e.pos, direction |-> d, move_timer |-> 0] :
                  d \in Direction}
    ELSE {[e EXCEPT !.move_timer = e.move_timer + 1]}

\* for enemy in self.enemies: enemy.update()
enemies_update(es) ==
    {f \in [1 .. NumEnemies -> UNION {enemy_update(es[i]) : i \in 1 .. NumEnemies}] :
        \A i \in 1 .. NumEnemies : f[i] \in enemy_update(es[i])}

(***************************************************************************)
(* HighScoreManager.                                                       *)
(***************************************************************************)
\* list.sort(reverse=True), by insertion
RECURSIVE InsertDesc(_, _)
InsertDesc(s, x) ==
    IF s = << >> THEN <<x>>
    ELSE IF x >= Head(s) THEN <<x>> \o s
    ELSE <<Head(s)>> \o InsertDesc(Tail(s), x)

RECURSIVE SortDesc(_)
SortDesc(s) == IF s = << >> THEN << >> ELSE InsertDesc(SortDesc(Tail(s)), Head(s))

\* python's s[:k]
Take(s, k) == IF Len(s) <= k THEN s ELSE SubSeq(s, 1, k)

\* HighScoreManager.add_score, as the new value of scores
add_score(s, x) == Take(SortDesc(Append(s, x)), TopN)

\* a mutant of add_score_returns: a tie with the best score does not count
add_score_returns_strict(s, x) == \A i \in 1 .. Len(s) : x > s[i]

\* HighScoreManager.add_score, as the value it returns
add_score_returns(s, x) == x = add_score(s, x)[1]

\* The high score file is [kind, items]:
\*   "missing"     os.path.exists is false
\*   "unreadable"  open() raises an OSError other than FileNotFoundError
\*   "garbage"     json.load raises JSONDecodeError
\*   "array"       a JSON array of integers, its items
\*   "strings"     a JSON array holding a value that is no integer
\*   "object"      a JSON document that is no array
\* and what a call gives back is [kind, items], kind "raised" for an exception
\* that leaves the method and the kind of the JSON document for a value.
Returned(kind, items) == [kind |-> kind, items |-> items]

\* HighScoreManager.load_scores
load_scores(f) ==
    CASE f.kind = "missing" -> Returned("array", <<0>>)
      [] f.kind = "unreadable" -> Returned("raised", << >>)
      [] f.kind = "garbage" -> Returned("array", <<0>>)
      [] OTHER -> Returned(f.kind, f.items)

\* what the disk does to a write, as explored
DiskOutcomes == {"written", "open fails", "write fails"}

\* HighScoreManager.save_scores on the list s, as the new value of the file:
\* open(..., "w") truncates it before json.dump writes
save_scores(f, s, outcome) ==
    CASE outcome = "written" -> [kind |-> "array", items |-> s]
      [] outcome = "open fails" -> f
      [] outcome = "write fails" -> [kind |-> "garbage", items |-> << >>]

(***************************************************************************)
(* Game.                                                                   *)
(***************************************************************************)
\* python's max
Max(a, b) == IF a >= b THEN a ELSE b

\* a mutant of increase_speed: min is called where max is meant
increase_speed_min(cur) ==
    IF min_snake_speed <= cur - speed_increase
    THEN min_snake_speed
    ELSE cur - speed_increase

\* a mutant of increase_speed: the floor is forgotten
increase_speed_unclamped(cur) == cur - speed_increase

\* Game.increase_speed, as the new value of current_speed
increase_speed(cur) == Max(min_snake_speed, cur - speed_increase)

\* Game.ensure_coconut_not_on_snake, as the positions it can leave the coconut
\* at when it returns (the loop has no bound: it returns only once a draw is
\* off the snake)
ensure_coconut_not_on_snake(c, b) ==
    IF ~OnSnake(c, b) THEN {c} ELSE {q \in randomize : ~OnSnake(q, b)}

\* Game.ensure_food_not_on_coconut, as the positions it can leave the food at:
\* the last of at most 100 draws is not looked at again
ensure_food_not_on_coconut(f, c) ==
    IF c = NoCoconut \/ f # c THEN {f} ELSE randomize

\* Game.ensure_food_not_on_snake, as the positions it can leave the food at:
\* the last of at most 100 draws is not looked at again
ensure_food_not_on_snake(f, b) ==
    IF ~OnSnake(f, b) THEN {f} ELSE randomize

\* a mutant of eats_apple: the food is compared with the tail
eats_apple_tail(f, b) == f = b[Len(b)]

\* Game.check_collision: food_pos == snake_head
eats_apple(f, b) == f = b[1]

\* a mutant of spawns_coconut: the draw is compared with <=
spawns_coconut_inclusive(r, c) == r <= coconut_spawn_chance /\ c = NoCoconut

\* Game.check_collision: random.random() < coconut_spawn_chance and not self.coconut
spawns_coconut(r, c) == r < coconut_spawn_chance /\ c = NoCoconut

\* Game.check_collision, the apple: the values of (food, coconut) it can leave
\* and the random.random() it drew, given the snake after its move
apple_collision(b, f, c) ==
    IF eats_apple(f, b)
    THEN UNION {
           IF spawns_coconut(r, c)
           THEN UNION { UNION { UNION {
                    {[food |-> f3, coconut |-> c1, draw |-> r, ate |-> TRUE] :
                        f3 \in ensure_food_not_on_snake(f2, b)} :
                    f2 \in ensure_food_not_on_coconut(f1, c1)} :
                    c1 \in ensure_coconut_not_on_snake(c0, b)} :
                    c0 \in randomize}
           ELSE {[food |-> f3, coconut |-> c, draw |-> r, ate |-> TRUE] :
                    f3 \in ensure_food_not_on_snake(f1, b)} :
           f1 \in randomize, r \in RandomDraws}
    ELSE {[food |-> f, coconut |-> c, draw |-> NoDraw, ate |-> FALSE]}

\* Game.check_collision, the coconut: self.coconut and coconut_pos == snake_head
eats_coconut(c, b) == c # NoCoconut /\ c = b[1]

\* Game.check_collision on the snake (b, nb, srb), sn being what was requested
\* of the snake since its last move
Game_check_collision(b, nb, srb, sn) ==
    \E a \in apple_collision(b, food, coconut) :
        LET hit == eats_coconut(a.coconut, b) IN
        /\ food' = a.food
        /\ new_block' = (a.ate \/ nb)
        /\ score' = score + (IF a.ate THEN apple_points ELSE 0)
                          + (IF hit THEN coconut_points ELSE 0)
        /\ should_remove_block' = IF hit THEN remove_block(b, srb) ELSE srb
        /\ current_speed' = IF hit THEN increase_speed(current_speed) ELSE current_speed
        /\ timer' = IF hit THEN increase_speed(current_speed) ELSE timer
        /\ coconut' = IF hit THEN NoCoconut ELSE a.coconut
        /\ last' = IF a.ate THEN a.draw ELSE last
        /\ pair' = pair
        /\ since' = [grow |-> sn.grow \/ a.ate,
                     shrink |-> sn.shrink \/ (hit /\ Len(b) > 1)]

\* a mutant of check_enemy_collision: only the first enemy is looked at
check_enemy_collision_first(es, b) == IF es[1].pos = b[1] THEN 1 ELSE 0

\* Game.check_enemy_collision: the number of game_over() calls it makes
check_enemy_collision(es, b) ==
    Cardinality({i \in 1 .. NumEnemies : es[i].pos = b[1]})

\* Game.check_fail: the number of game_over() calls it makes
check_fail(b) == IF Snake_check_collision(b) THEN 1 ELSE 0

\* Game.game_over called k times with score x, as the new value of scores
RECURSIVE game_over(_, _, _)
game_over(s, x, k) == IF k = 0 THEN s ELSE game_over(add_score(s, x), x, k - 1)

\* what the disk does to the writes of a game of main(), as explored: the
\* failing writes are those of SpecScores
GameDisk == {"written"}

\* Game.game_over called k times with score x, as the files its saves can leave
RECURSIVE game_over_file(_, _, _, _)
game_over_file(f, s, x, k) ==
    IF k = 0 THEN {f}
    ELSE UNION {game_over_file(save_scores(f, add_score(s, x), o),
                               add_score(s, x), x, k - 1) : o \in GameDisk}

\* Game.__init__, with the interval main() arms the timer with (0: not armed)
NewGame(speed, armed) ==
    /\ body = FreshBody
    /\ direction = RIGHT
    /\ new_block = FALSE
    /\ should_remove_block = FALSE
    /\ food \in randomize
    /\ coconut = NoCoconut
    /\ enemies \in NewEnemies
    /\ score = 0
    /\ state = "menu"
    /\ scores = <<0>>
    /\ current_speed = speed
    /\ timer = armed
    /\ ticks = 0
    /\ pair = NoPair
    /\ since = NoRequest
    /\ last = NoDraw
    /\ file = NoFile
    /\ loop = NoLoop
    /\ op = NoOp

\* Game(config); pygame.time.set_timer(SCREEN_UPDATE, game.current_speed)
Init == NewGame(snake_speed, snake_speed)

\* a mutant of restart_game: the speed of the game before is kept
restart_game_keeps_speed ==
    /\ body' = FreshBody
    /\ direction' = RIGHT
    /\ new_block' = FALSE
    /\ should_remove_block' = FALSE
    /\ food' \in randomize
    /\ coconut' = NoCoconut
    /\ enemies' \in NewEnemies
    /\ score' = 0
    /\ state' = "playing"
    /\ pair' = pair
    /\ since' = NoRequest
    /\ UNCHANGED <<current_speed, scores, timer, ticks, last, op, file, loop>>

\* Game.restart_game
Game_restart_game ==
    /\ body' = FreshBody
    /\ direction' = RIGHT
    /\ new_block' = FALSE
    /\ should_remove_block' = FALSE
    /\ food' \in randomize
    /\ coconut' = NoCoconut
    /\ enemies' \in NewEnemies
    /\ score' = 0
    /\ current_speed' = snake_speed
    /\ state' = "playing"
    /\ pair' = pair
    /\ since' = NoRequest
    /\ UNCHANGED <<scores, timer, ticks, last, file, loop>>

\* Game.restart_game, called by main()
restart_game == Game_restart_game /\ UNCHANGED op

\* Game.update, the statements under its if
update_playing ==
    LET mv == move_snake(body, direction, new_block, should_remove_block)
        k(es) == check_enemy_collision(es, mv.body) + check_fail(mv.body)
    IN  /\ body' = mv.body
        /\ enemies' \in enemies_update(enemies)
        /\ Game_check_collision(mv.body, mv.new_block, mv.should_remove_block,
                                NoRequest)
        /\ scores' = game_over(scores, score', k(enemies'))
        /\ file' \in game_over_file(file, scores, score', k(enemies'))
        /\ state' = IF k(enemies') > 0 THEN "game_over" ELSE state
        /\ ticks' = ticks + 1
        /\ UNCHANGED <<direction, loop>>

\* a mutant of Game_update: the state is not looked at
Game_update_unguarded == update_playing

\* Game.update
Game_update ==
    IF state = "playing" THEN update_playing ELSE UNCHANGED <<snakevars, gamevars>>

\* Game.update, called by main()
update == Game_update /\ UNCHANGED op

(***************************************************************************)
(* Spec: main().  One action for each event the loop handles; pygame.QUIT  *)
(* ends the process and leaves no state behind, and a key the state does   *)
(* not bind changes nothing.                                               *)
(***************************************************************************)
\* SCREEN_UPDATE
Tick ==
    /\ ticks < MaxTicks
    /\ IF state = "playing" THEN update ELSE UNCHANGED vars

\* K_SPACE in MENU
StartGame ==
    /\ state = "menu"
    /\ restart_game

\* K_UP, K_DOWN, K_RIGHT, K_LEFT in PLAYING
TurnSnake ==
    /\ state = "playing"
    /\ \E d \in Direction :
        /\ direction' = set_direction(direction, d)
        /\ UNCHANGED <<body, new_block, should_remove_block, since, pair, op>>
        /\ UNCHANGED gamevars

\* K_p, K_SPACE in PLAYING
Pause ==
    /\ state = "playing"
    /\ state' = "paused"
    /\ UNCHANGED <<snakevars, food, coconut, enemies, score, scores, current_speed,
                   timer, ticks, last, op, file, loop>>

\* K_p, K_SPACE in PAUSED
Resume ==
    /\ state = "paused"
    /\ state' = "playing"
    /\ UNCHANGED <<snakevars, food, coconut, enemies, score, scores, current_speed,
                   timer, ticks, last, op, file, loop>>

\* a mutant of PausedToMenu: K_ESCAPE leaves a running game too
PausedToMenu_or_playing ==
    /\ state \in {"paused", "playing"}
    /\ state' = "menu"
    /\ UNCHANGED <<snakevars, food, coconut, enemies, score, scores, current_speed,
                   timer, ticks, last, op, file, loop>>

\* K_ESCAPE in PAUSED
PausedToMenu ==
    /\ state = "paused"
    /\ state' = "menu"
    /\ UNCHANGED <<snakevars, food, coconut, enemies, score, scores, current_speed,
                   timer, ticks, last, op, file, loop>>

\* K_r in GAME_OVER
Restart ==
    /\ state = "game_over"
    /\ restart_game

\* K_ESCAPE in GAME_OVER
GameOverToMenu ==
    /\ state = "game_over"
    /\ state' = "menu"
    /\ UNCHANGED <<snakevars, food, coconut, enemies, score, scores, current_speed,
                   timer, ticks, last, op, file, loop>>

Next ==
    \/ Tick
    \/ StartGame
    \/ TurnSnake
    \/ Pause
    \/ Resume
    \/ PausedToMenu
    \/ Restart
    \/ GameOverToMenu

Spec == Init /\ [][Next]_vars

(***************************************************************************)
(* SpecLate: main() taken up late in a game.  The snake has eaten j apples *)
(* that each brought a coconut and has picked j coconuts up, which has     *)
(* left it three segments long, and it has come back to where it started;  *)
(* or it has just eaten one more apple there, which brought the coconut    *)
(* that lies ahead.  The enemies were all drawn in the top left corner.    *)
(***************************************************************************)
\* the coconuts picked up that take current_speed from snake_speed to the floor
PickUpsToFloor ==
    CHOOSE k \in 0 .. snake_speed :
        /\ snake_speed - k * speed_increase <= min_snake_speed
        /\ \A i \in 0 .. k - 1 : snake_speed - i * speed_increase > min_snake_speed

\* current_speed after j coconuts
SpeedAfter(j) == Max(min_snake_speed, snake_speed - j * speed_increase)

InitLate ==
    \E j \in 0 .. PickUpsToFloor, c \in {NoCoconut} \cup randomize :
        /\ c # NoCoconut => ~OnSnake(c, FreshBody)
        /\ body = FreshBody
        /\ direction = RIGHT
        /\ new_block = (c # NoCoconut)
        /\ should_remove_block = FALSE
        /\ food \in {q \in randomize : ~OnSnake(q, FreshBody)}
        /\ coconut = c
        /\ enemies = [i \in 1 .. NumEnemies |->
                         [pos |-> <<0, 0>>, direction |-> UP, move_timer |-> 0]]
        /\ score = j * (apple_points + coconut_points)
                      + (IF c # NoCoconut THEN apple_points ELSE 0)
        /\ state = "playing"
        /\ scores = <<0>>
        /\ current_speed = SpeedAfter(j)
        /\ timer = IF j = 0 THEN snake_speed ELSE current_speed
        /\ ticks = 0
        /\ pair = NoPair
        /\ since = [grow |-> c # NoCoconut, shrink |-> FALSE]
        /\ last = IF j = 0 /\ c = NoCoconut THEN NoDraw ELSE coconut_spawn_chance - 1
        /\ file = NoFile
        /\ loop = NoLoop
        /\ op = NoOp

\* SCREEN_UPDATE
TickLate ==
    /\ ticks < LateTicks
    /\ IF state = "playing" THEN update ELSE UNCHANGED vars

NextLate ==
    \/ TickLate
    \/ StartGame
    \/ TurnSnake
    \/ Pause
    \/ Resume
    \/ PausedToMenu
    \/ Restart
    \/ GameOverToMenu

SpecLate == InitLate /\ [][NextLate]_vars

(***************************************************************************)
(* SpecEvent: main() run from the start for up to LateTicks ticks, and     *)
(* then one call watched: Game.update called whatever the state, as a test *)
(* calls it, or one KEYDOWN event handled by main().  op tells which.      *)
(***************************************************************************)
DirectionKeys == {"K_UP", "K_DOWN", "K_RIGHT", "K_LEFT"}

Keys == DirectionKeys \cup {"K_p", "K_SPACE", "K_ESCAPE", "K_r"}

\* main: the Direction a key stands for
KeyDirection(key) ==
    CASE key = "K_UP" -> UP
      [] key = "K_DOWN" -> DOWN
      [] key = "K_RIGHT" -> RIGHT
      [] key = "K_LEFT" -> LEFT

\* game.update()
CallUpdate ==
    /\ op = NoOp
    /\ Game_update
    /\ op' = [name |-> "update", arg |-> NoArg]

\* main: if event.type == pygame.KEYDOWN
KeyDown ==
    /\ op = NoOp
    /\ \E key \in Keys :
          /\ op' = [name |-> "keydown", arg |-> key]
          /\ CASE state = "menu" /\ key = "K_SPACE" -> Game_restart_game
               [] state = "playing" /\ key \in DirectionKeys ->
                    /\ direction' = set_direction(direction, KeyDirection(key))
                    /\ UNCHANGED <<body, new_block, should_remove_block, since, pair>>
                    /\ UNCHANGED gamevars
               [] state = "playing" /\ key \in {"K_p", "K_SPACE"} ->
                    /\ state' = "paused"
                    /\ UNCHANGED <<snakevars, food, coconut, enemies, score, scores,
                                   current_speed, timer, ticks, last, file, loop>>
               [] state = "paused" /\ key \in {"K_p", "K_SPACE"} ->
                    /\ state' = "playing"
                    /\ UNCHANGED <<snakevars, food, coconut, enemies, score, scores,
                                   current_speed, timer, ticks, last, file, loop>>
               [] state = "paused" /\ key = "K_ESCAPE" ->
                    /\ state' = "menu"
                    /\ UNCHANGED <<snakevars, food, coconut, enemies, score, scores,
                                   current_speed, timer, ticks, last, file, loop>>
               [] state = "game_over" /\ key = "K_r" -> Game_restart_game
               [] state = "game_over" /\ key = "K_ESCAPE" ->
                    /\ state' = "menu"
                    /\ UNCHANGED <<snakevars, food, coconut, enemies, score, scores,
                                   current_speed, timer, ticks, last, file, loop>>
               [] OTHER -> UNCHANGED <<snakevars, gamevars>>

\* main() while no call is watched yet
RunMain ==
    /\ op = NoOp
    /\ NextLate

NextEvent == RunMain \/ CallUpdate \/ KeyDown

SpecEvent == Init /\ [][NextEvent]_vars

(***************************************************************************)
(* SpecSpeed: Game.increase_speed called directly on a Game whose          *)
(* current_speed is any value of the configured range, as                  *)
(* test_speed_increase_mechanism and test_speed_minimum_limit call it.     *)
(* The calls keep coming: weak fairness on the call.                       *)
(***************************************************************************)
InitSpeed ==
    \E speed \in min_snake_speed .. max_snake_speed : NewGame(speed, 0)

IncreaseSpeed ==
    /\ current_speed' = increase_speed(current_speed)
    /\ timer' = increase_speed(current_speed)
    /\ op' = [name |-> "increase_speed", arg |-> NoArg]
    /\ UNCHANGED <<snakevars, food, coconut, enemies, score, state, scores, ticks, last,
                   file, loop>>

NextSpeed == IncreaseSpeed

SpecSpeed == InitSpeed /\ [][NextSpeed]_vars /\ WF_vars(IncreaseSpeed)

(***************************************************************************)
(* SpecCollide: Game.check_collision called directly on a Game set up by   *)
(* its caller, as test_coconut_spawning and test_coconut_collision_effects *)
(* call it: a snake of one to three segments lying along a row, the food   *)
(* and the coconut anywhere the random source puts them.                   *)
(***************************************************************************)
\* the snake of n segments with its head at h, lying to the left of it
RowBody(h, n) == [i \in 1 .. n |-> <<h[1] - (i - 1), h[2]>>]

\* the speeds a game passes through
SpeedsOfPlay ==
    {Max(min_snake_speed, snake_speed - k * speed_increase) : k \in 0 .. 4}

InitCollide ==
    /\ body \in {RowBody(h, n) : h \in DrawCells, n \in 1 .. 3}
    /\ direction = RIGHT
    /\ new_block \in BOOLEAN
    /\ should_remove_block \in (IF Len(body) > 1 THEN BOOLEAN ELSE {FALSE})
    /\ food \in randomize
    /\ coconut \in {NoCoconut} \cup randomize
    /\ enemies = [i \in 1 .. NumEnemies |->
                     [pos |-> <<0, 0>>, direction |-> UP, move_timer |-> 0]]
    /\ score = 0
    /\ state = "playing"
    /\ scores = <<0>>
    /\ current_speed \in SpeedsOfPlay
    /\ timer = current_speed
    /\ ticks = 0
    /\ pair = NoPair
    /\ since = [grow |-> new_block, shrink |-> should_remove_block]
    /\ last = NoDraw
    /\ file = NoFile
    /\ loop = NoLoop
    /\ op = NoOp

CheckCollision ==
    /\ op = NoOp
    /\ Game_check_collision(body, new_block, should_remove_block, since)
    /\ op' = [name |-> "check_collision", arg |-> NoArg]
    /\ UNCHANGED <<body, direction, enemies, state, scores, ticks, file, loop>>

NextCollide == CheckCollision

SpecCollide == InitCollide /\ [][NextCollide]_vars

(***************************************************************************)
(* SpecPlace: Game.check_collision run statement by statement on a Game    *)
(* set up as in SpecCollide, one step for each pass through one of its     *)
(* three placement loops.  loop.pc is the statement it stands at,          *)
(* loop.attempts the local variable attempts of the loop it is in;         *)
(* loop.draws counts the randomize calls of that loop, loop.all_on tells   *)
(* whether all of them gave a cell of the snake, loop.spawned whether this *)
(* call created the coconut, and loop.exhausted whether one of its loops   *)
(* has ended on attempts reaching 100.                                     *)
(***************************************************************************)
\* a mutant of coconut_on_snake: the head is left out
coconut_on_snake_skips_head(c, b) == \E i \in 2 .. Len(b) : b[i] = c

\* ensure_coconut_not_on_snake: any(block == self.coconut.pos for block in body)
coconut_on_snake(c, b) == \E i \in 1 .. Len(b) : b[i] = c

\* a mutant of food_on_snake: the head is left out
food_on_snake_skips_head(f, b) == \E i \in 2 .. Len(b) : b[i] = f

\* ensure_food_not_on_snake: the for loop over the body
food_on_snake(f, b) == \E i \in 1 .. Len(b) : b[i] = f

\* ensure_food_not_on_coconut: the comparison of its while
food_on_coconut(f, c) == f = c

EnterLoop(pc, spawned, exhausted) ==
    [pc |-> pc, attempts |-> 0, draws |-> 0, all_on |-> TRUE, spawned |-> spawned,
     exhausted |-> exhausted]

InitPlace ==
    /\ body \in {RowBody(h, n) : h \in DrawCells, n \in 1 .. 3}
    /\ direction = RIGHT
    /\ new_block = FALSE
    /\ should_remove_block = FALSE
    /\ food \in randomize
    /\ coconut \in {NoCoconut} \cup randomize
    /\ enemies = [i \in 1 .. NumEnemies |->
                     [pos |-> <<0, 0>>, direction |-> UP, move_timer |-> 0]]
    /\ score = 0
    /\ state = "playing"
    /\ scores = <<0>>
    /\ current_speed = snake_speed
    /\ timer = snake_speed
    /\ ticks = 0
    /\ pair = NoPair
    /\ since = NoRequest
    /\ last = NoDraw
    /\ file = NoFile
    /\ loop = NoLoop
    /\ op = NoOp

\* check_collision up to the first loop: the apple
Begin ==
    /\ loop.pc = "idle"
    /\ op' = [name |-> "check_collision", arg |-> NoArg]
    /\ IF eats_apple(food, body)
       THEN \E f \in randomize, r \in RandomDraws :
               /\ food' = f
               /\ new_block' = TRUE
               /\ pair' = pair
               /\ since' = [since EXCEPT !.grow = TRUE]
               /\ score' = score + apple_points
               /\ last' = r
               /\ IF spawns_coconut(r, coconut)
                  THEN /\ coconut' \in randomize
                       /\ loop' = EnterLoop("coconut_loop", TRUE, FALSE)
                  ELSE /\ coconut' = coconut
                       /\ loop' = EnterLoop("food_snake_loop", FALSE, FALSE)
       ELSE /\ loop' = EnterLoop("coconut_check", FALSE, FALSE)
            /\ UNCHANGED <<food, new_block, since, pair, score, last, coconut>>
    /\ UNCHANGED <<body, direction, should_remove_block, enemies, state, scores,
                   current_speed, timer, ticks, file>>

\* ensure_coconut_not_on_snake: one test of its while, and the body
CoconutLoop ==
    /\ loop.pc = "coconut_loop"
    /\ IF coconut_on_snake(coconut, body)
       THEN /\ loop.draws < MaxSpins
            /\ coconut' \in randomize
            /\ loop' = [loop EXCEPT !.draws = loop.draws + 1]
       ELSE /\ coconut' = coconut
            /\ loop' = EnterLoop("food_coconut_loop", loop.spawned, loop.exhausted)
    /\ UNCHANGED <<snakevars, food, enemies, score, state, scores, current_speed,
                   timer, ticks, last, file, op>>

\* ensure_food_not_on_coconut: one test of its while, and the body
FoodCoconutLoop ==
    /\ loop.pc = "food_coconut_loop"
    /\ IF food_on_coconut(food, coconut) /\ loop.attempts < max_attempts
       THEN /\ food' \in randomize
            /\ loop' = [loop EXCEPT !.attempts = loop.attempts + 1,
                                     !.draws = loop.draws + 1]
       ELSE /\ food' = food
            /\ loop' = EnterLoop("food_snake_loop", loop.spawned,
                                 loop.exhausted \/ food_on_coconut(food, coconut))
    /\ UNCHANGED <<snakevars, coconut, enemies, score, state, scores, current_speed,
                   timer, ticks, last, file, op>>

\* ensure_food_not_on_snake: one test of its while, and the body (a pass that
\* finds the food off the snake clears collision_found, which ends the loop)
FoodSnakeLoop ==
    /\ loop.pc = "food_snake_loop"
    /\ IF loop.attempts < max_attempts
       THEN IF food_on_snake(food, body)
            THEN /\ food' \in randomize
                 /\ loop' = [loop EXCEPT !.attempts = loop.attempts + 1,
                                          !.draws = loop.draws + 1,
                                          !.all_on = loop.all_on /\ OnSnake(food', body)]
            ELSE /\ food' = food
                 /\ loop' = [loop EXCEPT !.pc = "coconut_check",
                                          !.attempts = loop.attempts + 1]
       ELSE /\ food' = food
            /\ loop' = [loop EXCEPT !.pc = "coconut_check", !.exhausted = TRUE]
    /\ UNCHANGED <<snakevars, coconut, enemies, score, state, scores, current_speed,
                   timer, ticks, last, file, op>>

\* check_collision after the loops: the coconut
CoconutCheck ==
    /\ loop.pc = "coconut_check"
    /\ loop' = [loop EXCEPT !.pc = "done"]
    /\ IF eats_coconut(coconut, body)
       THEN /\ should_remove_block' = remove_block(body, should_remove_block)
            /\ pair' = pair
            /\ since' = [since EXCEPT !.shrink = since.shrink \/ Len(body) > 1]
            /\ current_speed' = increase_speed(current_speed)
            /\ timer' = increase_speed(current_speed)
            /\ coconut' = NoCoconut
            /\ score' = score + coconut_points
       ELSE UNCHANGED <<should_remove_block, since, pair, current_speed, timer, coconut, score>>
    /\ UNCHANGED <<body, direction, new_block, food, enemies, state, scores, ticks,
                   last, file, op>>

NextPlace == Begin \/ CoconutLoop \/ FoodCoconutLoop \/ FoodSnakeLoop \/ CoconutCheck

SpecPlace == InitPlace /\ [][NextPlace]_vars

(***************************************************************************)
(* SpecRoam: the objects that are placed at random, called directly as     *)
(* test_coconut_randomize calls Coconut.randomize: Food.randomize,         *)
(* Coconut(config) and Coconut.randomize, and the loop of Game.update over *)
(* the enemies, on a Game as constructed, its random draws at the ends of  *)
(* their ranges.  The first enemy is drawn in any corner with any          *)
(* direction, the second in the top left corner facing up and the third in *)
(* the bottom right corner facing down.  ticks counts the rounds of        *)
(* Enemy.update.                                                           *)
(***************************************************************************)
InitRoam ==
    /\ body = FreshBody
    /\ direction = RIGHT
    /\ new_block = FALSE
    /\ should_remove_block = FALSE
    /\ food \in randomize_position
    /\ coconut = NoCoconut
    /\ \E p \in randomize_position, d \in Direction :
          enemies = <<[pos |-> p, direction |-> d, move_timer |-> 0],
                      [pos |-> <<0, 0>>, direction |-> UP, move_timer |-> 0],
                      [pos |-> <<cell_number_x - 1, cell_number_y - 1>>,
                       direction |-> DOWN, move_timer |-> 0]>>
    /\ score = 0
    /\ state = "menu"
    /\ scores = <<0>>
    /\ current_speed = snake_speed
    /\ timer = 0
    /\ ticks = 0
    /\ pair = NoPair
    /\ since = NoRequest
    /\ last = NoDraw
    /\ file = NoFile
    /\ loop = NoLoop
    /\ op = NoOp

\* self.food.randomize()
FoodRandomize ==
    /\ food' \in randomize_position
    /\ op' = [name |-> "Food.randomize", arg |-> NoArg]
    /\ UNCHANGED <<snakevars, coconut, enemies, score, state, scores, current_speed,
                   timer, ticks, last, file, loop>>

\* self.coconut = Coconut(self.config), self.coconut.randomize()
CoconutRandomize ==
    /\ coconut' \in randomize_position
    /\ op' = [name |-> "Coconut.randomize", arg |-> NoArg]
    /\ UNCHANGED <<snakevars, food, enemies, score, state, scores, current_speed,
                   timer, ticks, last, file, loop>>

\* for enemy in self.enemies: enemy.update()
EnemiesUpdate ==
    /\ ticks < MaxRoam
    /\ enemies' \in enemies_update(enemies)
    /\ ticks' = ticks + 1
    /\ op' = [name |-> "Enemy.update", arg |-> NoArg]
    /\ UNCHANGED <<snakevars, food, coconut, score, state, scores, current_speed,
                   timer, last, file, loop>>

NextRoam == FoodRandomize \/ CoconutRandomize \/ EnemiesUpdate

SpecRoam == InitRoam /\ [][NextRoam]_vars

(***************************************************************************)
(* SpecScores: a HighScoreManager called directly: load_scores on a file   *)
(* of any kind, and add_score and save_scores on a stored list that is any *)
(* list of up to MaxList scores, sorted or not, or a sorted list of about  *)
(* TopN scores, as add_score leaves them and as a file can hold them.      *)
(***************************************************************************)
\* the lists of n scores, each at most m, in descending order
RECURSIVE DescLists(_, _)
DescLists(n, m) ==
    IF n = 0 THEN {<< >>}
    ELSE UNION {{<<v>> \o t : t \in DescLists(n - 1, v)} : v \in 0 .. m}

ScoreLists ==
    UNION {[1 .. n -> 0 .. MaxScore] : n \in 0 .. MaxList}
        \cup UNION {DescLists(n, MaxScore) : n \in TopN - 1 .. TopN + 1}

ScoreFiles ==
    {[kind |-> k, items |-> << >>] :
        k \in {"missing", "unreadable", "garbage", "strings", "object"}}
        \cup {[kind |-> "array", items |-> l] : l \in {<< >>, <<0>>, <<1, 2>>}}

InitScores ==
    /\ scores \in ScoreLists
    /\ file \in ScoreFiles
    /\ body = FreshBody
    /\ direction = RIGHT
    /\ new_block = FALSE
    /\ should_remove_block = FALSE
    /\ food = <<0, 0>>
    /\ coconut = NoCoconut
    /\ enemies = << >>
    /\ score = 0
    /\ state = "menu"
    /\ current_speed = snake_speed
    /\ timer = 0
    /\ ticks = 0
    /\ pair = NoPair
    /\ since = NoRequest
    /\ last = NoDraw
    /\ loop = NoLoop
    /\ op = NoOp

\* the call, with what it returned
LoadScores ==
    /\ op = NoOp
    /\ op' = [name |-> "load_scores", arg |-> load_scores(file)]
    /\ UNCHANGED <<snakevars, gamevars>>

\* the call, with what the disk did
SaveScores ==
    /\ op = NoOp
    /\ \E o \in DiskOutcomes :
          /\ file' = save_scores(file, scores, o)
          /\ op' = [name |-> "save_scores", arg |-> o]
    /\ UNCHANGED <<snakevars, food, coconut, enemies, score, state, scores,
                   current_speed, timer, ticks, last, loop>>

\* the call, with its argument, what it returned and what the disk did
AddScore ==
    /\ op = NoOp
    /\ \E x \in 0 .. MaxScore + 1, o \in DiskOutcomes :
          /\ scores' = add_score(scores, x)
          /\ file' = save_scores(file, scores', o)
          /\ op' = [name |-> "add_score",
                    arg |-> [score |-> x, returned |-> add_score_returns(scores, x),
                             saved |-> o]]
    /\ UNCHANGED <<snakevars, food, coconut, enemies, score, state, current_speed,
                   timer, ticks, last, loop>>

NextScores == LoadScores \/ SaveScores \/ AddScore

SpecScores == InitScores /\ [][NextScores]_vars

\* a Snake on its own: no Game is constructed
NoGame ==
    /\ food = <<0, 0>>
    /\ coconut = NoCoconut
    /\ enemies = << >>
    /\ score = 0
    /\ state = "menu"
    /\ scores = << >>
    /\ current_speed = snake_speed
    /\ timer = 0
    /\ ticks = 0
    /\ last = NoDraw
    /\ file = NoFile
    /\ loop = NoLoop

(***************************************************************************)
(* SpecSnake: a Snake object driven directly through its methods, as the   *)
(* unit tests drive it: a fresh Snake, or the one-segment snake of         *)
(* test_snake_remove_block_minimum_length.                                 *)
(***************************************************************************)
\* the heads explored: at most MaxReach columns and rows away from where the
\* head of one of the two snakes starts
Abs(n) == IF n < 0 THEN -n ELSE n

Near(p, c) == Abs(p[1] - c[1]) <= MaxReach /\ Abs(p[2] - c[2]) <= MaxReach

InReach(p) == Near(p, FreshBody[1]) \/ Near(p, <<5, 5>>)

InitSnake ==
    /\ body \in {FreshBody, << <<5, 5>> >>}
    /\ direction = RIGHT
    /\ new_block = FALSE
    /\ should_remove_block = FALSE
    /\ pair = NoPair
    /\ since = NoRequest
    /\ op = NoOp
    /\ NoGame

AddBlock ==
    /\ new_block' = TRUE
    /\ pair' = pair
    /\ since' = [since EXCEPT !.grow = TRUE]
    /\ op' = [name |-> "add_block", arg |-> NoArg]
    /\ UNCHANGED <<body, direction, should_remove_block>>
    /\ UNCHANGED gamevars

RemoveBlock ==
    /\ should_remove_block' = remove_block(body, should_remove_block)
    /\ pair' = pair
    /\ since' = [since EXCEPT !.shrink = since.shrink \/ Len(body) > 1]
    /\ op' = [name |-> "remove_block", arg |-> NoArg]
    /\ UNCHANGED <<body, direction, new_block>>
    /\ UNCHANGED gamevars

SetDirection ==
    \E d \in Direction :
        /\ direction' = set_direction(direction, d)
        /\ op' = [name |-> "set_direction", arg |-> d]
        /\ UNCHANGED <<body, new_block, should_remove_block, since, pair>>
        /\ UNCHANGED gamevars

MoveSnake ==
    LET r == move_snake(body, direction, new_block, should_remove_block) IN
    /\ Len(r.body) <= MaxLen
    /\ InReach(r.body[1])
    /\ body' = r.body
    /\ new_block' = r.new_block
    /\ should_remove_block' = r.should_remove_block
    /\ pair' = IF since.grow /\ since.shrink
               THEN [before |-> Len(body), moves |-> 1]
               ELSE IF pair.moves = 1 /\ since = NoRequest
               THEN [pair EXCEPT !.moves = 2]
               ELSE NoPair
    /\ since' = NoRequest
    /\ op' = [name |-> "move_snake", arg |-> NoArg]
    /\ UNCHANGED direction
    /\ UNCHANGED gamevars

NextSnake == AddBlock \/ RemoveBlock \/ SetDirection \/ MoveSnake

SpecSnake == InitSnake /\ [][NextSnake]_vars

(***************************************************************************)
(* SpecHit: Snake.check_collision called on a snake whose body is any      *)
(* chain of up to MaxShape segments, each next to the one before it, with  *)
(* its head in the grid or one cell outside it.                            *)
(***************************************************************************)
\* the chains of n segments that start with the segments s
RECURSIVE Chains(_, _)
Chains(s, n) ==
    IF Len(s) >= n THEN {s}
    ELSE UNION {Chains(Append(s, VAdd(s[Len(s)], d)), n) : d \in Direction}

InitHit ==
    /\ body \in UNION {Chains(<<h>>, n) :
                         h \in (-1 .. cell_number_x) \X (-1 .. cell_number_y),
                         n \in 1 .. MaxShape}
    /\ direction = RIGHT
    /\ new_block = FALSE
    /\ should_remove_block = FALSE
    /\ pair = NoPair
    /\ since = NoRequest
    /\ op = NoOp
    /\ NoGame

\* the call, with what it returned
Probe ==
    /\ op = NoOp
    /\ op' = [name |-> "check_collision", arg |-> Snake_check_collision(body)]
    /\ UNCHANGED <<snakevars, gamevars>>

NextHit == Probe

SpecHit == InitHit /\ [][NextHit]_vars

(***************************************************************************)
(* The claims.                                                             *)
(***************************************************************************)
\* a step of Spec in which Game.update() ran
IsUpdate == state = "playing" /\ ticks' = ticks + 1

\* the head of b is off the grid, on another segment of b, or on an enemy of es
HeadCollides(b, es) ==
    \/ ~(b[1][1] \in 0 .. cell_number_x - 1 /\ b[1][2] \in 0 .. cell_number_y - 1)
    \/ \E i \in 2 .. Len(b) : b[i] = b[1]
    \/ \E i \in DOMAIN es : es[i].pos = b[1]

\* C1: after every Game.update() run while Playing, the state is GameOver if
\* and only if the head, after the tick's snake move and enemy updates, is off
\* the grid, on another segment or on an enemy; otherwise it stays Playing.
C1_GameOverIffCollision ==
    [][IsUpdate =>
         state' = (IF HeadCollides(body', enemies') THEN "game_over" ELSE "playing")]_vars

\* C1, its case: the game is over with the head in the grid, off the body and
\* on an enemy.
C1_Witness ==
    /\ state = "game_over"
    /\ InGrid(body[1])
    /\ \A i \in 2 .. Len(body) : body[i] # body[1]
    /\ \E i \in 1 .. NumEnemies : enemies[i].pos = body[1] /\ enemies[1].pos # body[1]

Transitions ==
    {<<"menu", "playing">>, <<"playing", "paused">>, <<"paused", "playing">>,
     <<"playing", "game_over">>, <<"game_over", "playing">>,
     <<"game_over", "menu">>, <<"paused", "menu">>}

\* C2: the session state changes only along Menu->Playing, Playing->Paused,
\* Paused->Playing, Playing->GameOver, GameOver->Playing, GameOver->Menu and
\* Paused->Menu; Playing->GameOver happens in a tick, and the two ways into
\* Playing from Menu and GameOver recreate the snake.
C2_StateTransitions ==
    [][state' # state =>
         /\ <<state, state'>> \in Transitions
         /\ (state' = "game_over") = (ticks' = ticks + 1)
         /\ state \in {"menu", "game_over"} /\ state' = "playing"
                => body' = FreshBody /\ score' = 0]_vars

\* C2, its case: the menu, come back to from a game that was played and lost.
C2_Witness ==
    /\ state = "menu"
    /\ ticks > 0
    /\ Len(scores) > 1

\* the three parts of C3 that do not depend on a pending grow
C3_AtLeastOne == Len(body) >= 1

C3_RemoveIsNoOp ==
    (op'.name = "remove_block" /\ Len(body) = 1) =>
        UNCHANGED <<body, direction, new_block, should_remove_block>>

\* C3 as claimed: the body always has at least 1 segment, remove_block on a
\* one-segment snake changes nothing, and the move_snake that follows it
\* leaves exactly the body [head + direction].
C3_Original ==
    /\ []C3_AtLeastOne
    /\ [][C3_RemoveIsNoOp]_vars
    /\ [][(op.name = "remove_block" /\ Len(body) = 1 /\ op'.name = "move_snake") =>
            body' = <<VAdd(body[1], direction)>>]_vars

\* C3 as amended: the body always has at least 1 segment, remove_block on a
\* one-segment snake changes nothing, and the move_snake that follows it
\* leaves exactly the body [head + direction] when no grow is pending, and
\* the two-segment body [head + direction, head] when one is.
C3_Amended ==
    /\ []C3_AtLeastOne
    /\ [][C3_RemoveIsNoOp]_vars
    /\ [][(op.name = "remove_block" /\ Len(body) = 1 /\ op'.name = "move_snake") =>
            body' = (IF new_block
                     THEN <<VAdd(body[1], direction), body[1]>>
                     ELSE <<VAdd(body[1], direction)>>)]_vars

\* C3, its case: remove_block was called on a one-segment snake, and nothing
\* is pending.
C3_Witness ==
    /\ op.name = "remove_block"
    /\ Len(body) = 1
    /\ ~should_remove_block
    /\ ~new_block

\* C4 as claimed, read in its favour (a shrink asked for together with a grow
\* is left out): a move_snake keeps the length when neither add_block nor
\* remove_block was called since the previous move, adds exactly 1 when
\* add_block was, and takes exactly 1 off when remove_block was, the length
\* being above 1.
C4_Original ==
    [][op'.name = "move_snake" =>
         /\ (~since.grow /\ ~since.shrink) => Len(body') = Len(body)
         /\ since.grow => Len(body') = Len(body) + 1
         /\ (since.shrink /\ ~since.grow) => Len(body') = Len(body) - 1]_vars

\* C4 as amended: a move_snake adds exactly 1 to the length when add_block
\* was called since the previous move (a shrink asked for stays pending);
\* otherwise it takes exactly 1 off when a shrink is pending, asked for with
\* the length above 1 since the previous move or before an earlier move that
\* grew instead; otherwise it keeps the length.
C4_Amended ==
    /\ [](new_block = since.grow)
    /\ [](since.shrink => should_remove_block)
    /\ [](should_remove_block => Len(body) > 1)
    /\ [][op'.name = "move_snake" =>
            Len(body') = Len(body) + (IF since.grow THEN 1
                                      ELSE IF should_remove_block THEN -1
                                      ELSE 0)]_vars

\* C4, its case: a move has grown the snake and left the shrink asked for with
\* the grow pending.
C4_Witness ==
    /\ op.name = "move_snake"
    /\ should_remove_block
    /\ ~since.shrink
    /\ Len(body) = 4

\* the direction opposite to d
Opposite(d) == <<0 - d[1], 0 - d[2]>>

\* C5: with the direction d, set_direction(opposite(d)) leaves the direction
\* d, and set_direction(e) for any other e makes it e.
C5_SetDirection ==
    [][op'.name = "set_direction" =>
         direction' = (IF op'.arg = Opposite(direction) THEN direction ELSE op'.arg)]_vars

\* C5, its case: set_direction was called with the opposite of the direction.
C5_Witness ==
    /\ op.name = "set_direction"
    /\ op.arg = Opposite(direction)

\* C6: Snake.check_collision returns true if and only if the head is outside
\* [0, cell_number_x) x [0, cell_number_y) or on a segment other than the head.
C6_CheckCollision ==
    op.name = "check_collision" =>
        (op.arg <=>
            \/ ~(body[1][1] \in 0 .. cell_number_x - 1
                 /\ body[1][2] \in 0 .. cell_number_y - 1)
            \/ \E i \in 2 .. Len(body) : body[i] = body[1])

\* C6, its case: the call returned true for a head on the last column of the
\* grid, on another segment.
C6_Witness ==
    /\ op.name = "check_collision"
    /\ op.arg = TRUE
    /\ body[1][1] = cell_number_x - 1
    /\ body[1][2] \in 0 .. cell_number_y - 1

\* a tick in which the head lands on the food and not on a coconut
EatsFoodOnly == IsUpdate /\ body'[1] = food /\ coconut # body'[1]

\* C7 as claimed: in a tick in which the head lands on the food and not on a
\* coconut, the score goes up by exactly 1 and the length is one more than
\* before the tick.
C7_Original ==
    [][EatsFoodOnly => score' = score + 1 /\ Len(body') = Len(body) + 1]_vars

\* C7 as amended: in such a tick the score goes up by exactly 1 and a grow is
\* left pending; the length after the tick is what the tick's own move made
\* of it (one more only if a grow was pending before), and it is the next
\* tick's move that adds the segment.
C7_Amended ==
    /\ [][EatsFoodOnly =>
            /\ score' = score + 1
            /\ new_block'
            /\ Len(body') = Len(body) + (IF new_block THEN 1
                                         ELSE IF should_remove_block THEN -1
                                         ELSE 0)]_vars
    /\ [][(IsUpdate /\ new_block) => Len(body') = Len(body) + 1]_vars

\* C7, its case: the first food was eaten in the last tick, by a snake still
\* three segments long.
C7_Witness ==
    /\ state = "playing"
    /\ since.grow
    /\ new_block
    /\ score = 1
    /\ Len(body) = 3

\* C8: when Game.check_collision runs with a coconut on the snake's head, it
\* returns with no coconut, the score 2 above what it would be without the
\* coconut, and a shrink asked of the snake: pending if and only if the
\* length is above 1.
C8_CoconutPickUp ==
    [][(op'.name = "check_collision" /\ coconut # NoCoconut /\ coconut = body[1]) =>
         /\ coconut' = NoCoconut
         /\ score' = score + (IF food = body[1] THEN 1 ELSE 0) + 2
         /\ should_remove_block' = (Len(body) > 1)
         /\ since'.shrink = (Len(body) > 1)]_vars

\* C8, its case: a one-segment snake has picked the coconut up and no shrink
\* is pending.
C8_Witness ==
    /\ op.name = "check_collision"
    /\ coconut = NoCoconut
    /\ score = 2
    /\ Len(body) = 1
    /\ ~should_remove_block

\* C9: the coconut goes from none to present only in a check_collision in
\* which the head is on the food, and in such a call one is created if and
\* only if there is none and the random draw is strictly below
\* coconut_spawn_chance.
C9_CoconutSpawn ==
    /\ [][(coconut = NoCoconut /\ coconut' # NoCoconut) =>
            IsUpdate /\ body'[1] = food]_vars
    /\ [][(IsUpdate /\ body'[1] = food) =>
            ((coconut = NoCoconut /\ coconut' # NoCoconut)
                <=> (coconut = NoCoconut /\ last' < coconut_spawn_chance))]_vars

\* C9, its case: the last tick ate the food and created the coconut.
C9_Witness ==
    /\ since.grow
    /\ coconut # NoCoconut
    /\ last < coconut_spawn_chance

\* C10: increase_speed sets current_speed to max(min_snake_speed,
\* current_speed - speed_increase); it never raises it, and after finitely
\* many calls current_speed is min_snake_speed and stays there.
C10_IncreaseSpeed ==
    /\ [][op'.name = "increase_speed" =>
            /\ current_speed' =
                 (IF current_speed - speed_increase > min_snake_speed
                  THEN current_speed - speed_increase
                  ELSE min_snake_speed)
            /\ current_speed' <= current_speed]_vars
    /\ [][current_speed = min_snake_speed => current_speed' = min_snake_speed]_vars
    /\ <>[](current_speed = min_snake_speed)

\* C11: in every state that ticks, coconut pick-ups, game-overs and restarts
\* reach, min_snake_speed <= current_speed <= max_snake_speed.
C11_SpeedInRange ==
    /\ min_snake_speed <= current_speed
    /\ current_speed <= max_snake_speed

\* C11, its case: the game is over at the floor speed, with less than a whole
\* step taken by the last pick-up.
C11_Witness ==
    /\ state = "game_over"
    /\ current_speed = min_snake_speed
    /\ score = PickUpsToFloor * (apple_points + coconut_points)
    /\ (snake_speed - min_snake_speed) % speed_increase # 0

\* C10, its case: a call has brought a speed that was not a whole number of
\* steps above the floor down to the floor.
C10_Witness ==
    /\ op.name = "increase_speed"
    /\ current_speed = min_snake_speed
    /\ timer = min_snake_speed

\* C12 as claimed: in every reachable Playing state the interval the tick timer
\* was last armed with equals current_speed.
C12_Original == state = "playing" => timer = current_speed

\* C13: a restart_game, from the menu or from game over and whatever the game
\* before left behind, leaves the score 0, current_speed at snake_speed, no
\* coconut, the snake [(5,10), (4,10), (3,10)] facing right with neither a grow
\* nor a shrink pending, exactly 3 enemies that have not been updated yet, and
\* the state Playing.
C13_RestartResets ==
    [][(state \in {"menu", "game_over"} /\ state' # state /\ state' # "menu") =>
         /\ score' = 0
         /\ current_speed' = snake_speed
         /\ coconut' = NoCoconut
         /\ body' = << <<5, 10>>, <<4, 10>>, <<3, 10>> >>
         /\ direction' = <<1, 0>>
         /\ ~new_block' /\ ~should_remove_block'
         /\ DOMAIN enemies' = 1 .. 3
         /\ \A i \in DOMAIN enemies' :
               /\ enemies'[i].move_timer = 0
               /\ enemies'[i].pos \in GridCells
               /\ enemies'[i].direction \in Direction
         /\ state' = "playing"]_vars

\* C13, its case: a game started again after one in which a coconut was picked
\* up, which had made it faster.
C13_Witness ==
    /\ state = "playing"
    /\ score = 0
    /\ ticks > 1
    /\ timer < snake_speed
    /\ body = FreshBody

\* C14 as claimed: each placement retry loop of a tick (coconut off the snake,
\* food off the coconut, food off the snake) performs at most 100
\* re-randomisations.
C14_Original == loop.draws <= 100

\* C15: when a check_collision in which the food was eaten is through with its
\* loops, the new food is on no segment of the snake, the head included,
\* unless ensure_food_not_on_snake drew 100 times and every draw gave a cell
\* of the snake.
C15_FoodOffSnake ==
    (loop.pc \in {"coconut_check", "done"} /\ since.grow) =>
        \/ \A i \in 1 .. Len(body) : body[i] # food
        \/ loop.draws = 100 /\ loop.all_on

\* C15, its case: the food was eaten, and its 99th draw was the first off the
\* snake.
C15_Witness ==
    /\ loop.pc = "done"
    /\ since.grow
    /\ ~OnSnake(food, body)
    /\ loop.draws = max_attempts - 1

\* C16: when the loop of ensure_coconut_not_on_snake is left there is a
\* coconut, on no segment of the snake; and the call that created a coconut
\* does not pick it up: its coconut check changes neither the coconut nor the
\* score nor the speed, and leaves the coconut on the board.
C16_CoconutOffSnake ==
    /\ [][(loop.pc = "coconut_loop" /\ loop'.pc # loop.pc) =>
            /\ coconut' # NoCoconut
            /\ \A i \in 1 .. Len(body') : body'[i] # coconut']_vars
    /\ [][(loop.spawned /\ loop.pc = "coconut_check") =>
            /\ coconut' = coconut /\ coconut' # NoCoconut
            /\ score' = score
            /\ current_speed' = current_speed
            /\ should_remove_block' = should_remove_block]_vars

\* C16, its case: the call created a coconut, and it is through with a
\* three-segment snake and the coconut in the cell above the head.
C16_Witness ==
    /\ loop.pc = "done"
    /\ loop.spawned
    /\ Len(body) = 3
    /\ coconut = VAdd(body[1], UP)

\* C17: in every reachable state the food, the coconut when there is one, and
\* every enemy are at a position with 0 <= x < cell_number_x and
\* 0 <= y < cell_number_y, after any randomize calls and enemy updates.
C17_PositionsInGrid ==
    /\ 0 <= food[1] /\ food[1] < cell_number_x
    /\ 0 <= food[2] /\ food[2] < cell_number_y
    /\ coconut # NoCoconut =>
          /\ 0 <= coconut[1] /\ coconut[1] < cell_number_x
          /\ 0 <= coconut[2] /\ coconut[2] < cell_number_y
    /\ \A i \in DOMAIN enemies :
          /\ 0 <= enemies[i].pos[1] /\ enemies[i].pos[1] < cell_number_x
          /\ 0 <= enemies[i].pos[2] /\ enemies[i].pos[2] < cell_number_y

\* C17, its case: the enemies have had their move: the first has left the
\* bottom right corner for the cell above it, the other two were held back by
\* the wall they faced and have turned; the food and the coconut were drawn
\* in far corners.
C17_Witness ==
    /\ ticks >= move_interval
    /\ enemies[1].pos = <<cell_number_x - 1, cell_number_y - 2>>
    /\ enemies[2].pos = <<0, 0>> /\ enemies[2].direction = RIGHT
    /\ enemies[3].pos = <<cell_number_x - 1, cell_number_y - 1>>
    /\ enemies[3].direction = LEFT
    /\ food = <<cell_number_x - 1, 0>>
    /\ coconut = <<0, cell_number_y - 1>>

\* the number of scores of the list s that are at least v
AtLeast(s, v) == Cardinality({i \in 1 .. Len(s) : s[i] >= v})

Least(a, b) == IF a <= b THEN a ELSE b

\* C18: after add_score(s) on any stored list, the list holds the 10 largest
\* values of the old list plus s (all of them when they are fewer), in
\* descending order, duplicates kept: for every value v it holds as many
\* scores >= v as the old list plus s does, up to 10.  add_score returns true
\* if and only if s is the largest value of the new list.
C18_AddScore ==
    [][op'.name = "add_score" =>
         LET s == op'.arg.score
             all == Append(scores, s)
         IN  /\ Len(scores') = Least(10, Len(all))
             /\ \A i \in 1 .. Len(scores') - 1 : scores'[i] >= scores'[i + 1]
             /\ \A v \in 0 .. MaxScore + 1 :
                   AtLeast(scores', v) = Least(10, AtLeast(all, v))
             /\ op'.arg.returned =
                   (/\ \E i \in 1 .. Len(scores') : scores'[i] = s
                    /\ \A i \in 1 .. Len(scores') : scores'[i] <= s)]_vars

\* C18, its case: a score that ties the best of a full list was added: the
\* call returned true, and the list, still of 10, starts with the two of them.
C18_Witness ==
    /\ op.name = "add_score"
    /\ op.arg.returned
    /\ Len(scores) = TopN
    /\ scores[1] = op.arg.score /\ scores[2] = op.arg.score
    /\ scores[3] < op.arg.score

\* C19 as claimed: load_scores never fails, and returns [0] whenever the file
\* is missing or holds anything but a JSON array of integers; a save that
\* fails changes neither the stored list nor the rest of the game.
C19_Original ==
    /\ [](op.name = "load_scores" =>
            /\ op.arg.kind # "raised"
            /\ file.kind # "array" => op.arg = [kind |-> "array", items |-> <<0>>])
    /\ [][(op'.name = "save_scores" /\ op'.arg # "written") =>
            UNCHANGED <<snakevars, food, coconut, enemies, score, state, scores,
                        current_speed>>]_vars

\* C20 as claimed: every Playing->GameOver transition adds the score to the
\* high score list exactly once, and no update() adds it more than once.
C20_Original ==
    /\ [][(state = "playing" /\ state' = "game_over") =>
            Len(scores') = Len(scores) + 1]_vars
    /\ [][IsUpdate => Len(scores') <= Len(scores) + 1]_vars

\* the direction the move_snake that made the body b used: every move puts
\* the new head one step along it from the old head, which stays behind it
LastMove(b) == <<b[1][1] - b[2][1], b[1][2] - b[2][2]>>

\* C21 as claimed: whatever set_direction calls come between two ticks, the
\* direction a move_snake uses is never the exact opposite of the direction
\* the move_snake before it used.
C21_Original ==
    [][(IsUpdate /\ body # FreshBody /\ Len(body) >= 2) =>
         direction # <<0 - LastMove(body)[1], 0 - LastMove(body)[2]>>]_vars

\* C22 as claimed: where there is a coconut the food is not at its position,
\* unless the 100 retries of a loop were used up; here, after a
\* check_collision that ate the food while a coconut lay off the snake or
\* that created the coconut, once the food has been resolved against the
\* snake.
C22_Original ==
    (/\ loop.pc = "done"
     /\ since.grow
     /\ coconut # NoCoconut
     /\ \A i \in 1 .. Len(body) : body[i] # coconut
     /\ ~loop.exhausted)
        => food # coconut

\* C23: Game.update() called in state Menu, Paused or GameOver changes neither
\* the snake, the food, the coconut, the enemies and their counters, the
\* score, current_speed, the high score list nor the state; and a direction
\* key pressed outside Playing leaves the snake's direction, and all of
\* these, unchanged.
C23_IdleChangesNothing ==
    /\ [][(op'.name = "update" /\ state \in {"menu", "paused", "game_over"}) =>
            UNCHANGED <<body, direction, new_block, should_remove_block, food, coconut,
                        enemies, score, current_speed, scores, state>>]_vars
    /\ [][(/\ op'.name = "keydown"
           /\ op'.arg \in {"K_UP", "K_DOWN", "K_RIGHT", "K_LEFT"}
           /\ state # "playing") =>
            UNCHANGED <<body, direction, new_block, should_remove_block, food, coconut,
                        enemies, score, current_speed, scores, state>>]_vars

\* C23, its case: update was called on a paused game that had been played
\* for a tick, with a turn waiting.
C23_Witness ==
    /\ op.name = "update"
    /\ state = "paused"
    /\ ticks > 0
    /\ direction = UP
    /\ LastMove(body) = RIGHT

\* C24: when add_block and remove_block were both called, the length being 2
\* or more, before one move_snake, that move adds exactly 1 to the length and
\* leaves the shrink pending; and when nothing more is requested, the next
\* move_snake takes the shrink, so that after the two moves the length is the
\* one before the requests.
C24_GrowThenShrink ==
    /\ pair.moves > 0 => pair.before >= 2
    /\ pair.moves = 1 =>
          /\ Len(body) = pair.before + 1
          /\ should_remove_block
    /\ (pair.moves = 1 /\ since = NoRequest) => ~new_block
    /\ pair.moves = 2 => Len(body) = pair.before
    /\ (pair.moves = 2 /\ since = NoRequest) => (~new_block /\ ~should_remove_block)

\* C24, its case: a fresh snake of 3 segments that was asked to grow and to
\* shrink, turned, and then moved twice, with a turn between the moves.
C24_Witness ==
    /\ pair = [before |-> 3, moves |-> 2]
    /\ op.name = "move_snake"
    /\ body = << <<6, 9>>, <<6, 10>>, <<5, 10>> >>

\* C25: every update adds 1 to an enemy's counter, and sets it to 0 when it
\* reaches move_interval; the enemy's position and direction are those of
\* before on every other update, and nothing but an update changes them; on
\* the update where the counter reaches move_interval the enemy moves one
\* cell along the direction it had when that cell is in the grid, and
\* otherwise keeps its position and takes one of the four directions.
C25_EnemyMovesOnInterval ==
    /\ [][op'.name # "Enemy.update" => enemies' = enemies]_vars
    /\ [][op'.name = "Enemy.update" =>
            \A i \in DOMAIN enemies :
                LET e == enemies[i]
                    f == enemies'[i]
                    t == e.move_timer + 1
                    x == e.pos[1] + e.direction[1]
                    y == e.pos[2] + e.direction[2]
                    inside == /\ 0 <= x /\ x < cell_number_x
                              /\ 0 <= y /\ y < cell_number_y
                IN  /\ t <= move_interval
                    /\ f.move_timer = IF t = move_interval THEN 0 ELSE t
                    /\ t # move_interval =>
                          (f.pos = e.pos /\ f.direction = e.direction)
                    /\ (t = move_interval /\ inside) => f.pos = <<x, y>>
                    /\ (t = move_interval /\ ~inside) =>
                          (f.pos = e.pos /\ f.direction \in Direction)]_vars

\* C25, its case: the update after the one that made the moves: the first
\* enemy has gone one cell right from the top left corner and turned down,
\* the second was held back by the wall above it and faces right, and the
\* counters are at 1.
C25_Witness ==
    /\ op.name = "Enemy.update"
    /\ ticks = move_interval + 1
    /\ enemies[1] = [pos |-> <<1, 0>>, direction |-> DOWN, move_timer |-> 1]
    /\ enemies[2] = [pos |-> <<0, 0>>, direction |-> RIGHT, move_timer |-> 1]
    /\ enemies[3].pos = <<cell_number_x - 1, cell_number_y - 1>>

\* C26: in every state a Snake reaches through add_block, remove_block,
\* set_direction and move_snake, each segment of the body is at Manhattan
\* distance exactly 1 from the one after it.
C26_BodyIsChain ==
    \A i \in 1 .. Len(body) - 1 :
        Abs(body[i][1] - body[i + 1][1]) + Abs(body[i][2] - body[i + 1][2]) = 1

\* C26, its case: the fresh snake has grown to 4 segments going right, was
\* turned up and then left, and the shrinking move has brought its head back
\* onto the segment behind its neck.
C26_Witness ==
    /\ op.name = "move_snake"
    /\ direction = LEFT
    /\ body = << <<5, 10>>, <<6, 10>>, <<5, 10>> >>
    /\ pair.moves = 2

====
